---------------------------- MODULE Spec2Model ----------------------------
(***************************************************************************)
(* Model of flow/graph.py: the control-flow-graph builder                  *)
(* (flow_graph_from_ast and its registered handlers), the splicing         *)
(* operations of FlowGraph (embed, insert, insert_fake_merge_nodes) and    *)
(* the reduction pass (reduce_merge_nodes).                                *)
(*                                                                         *)
(* The input tree is read lazily: every handler action stands for the      *)
(* dispatch of flow_graph_from_ast on an AST node of that handler's type,  *)
(* so a behaviour of the model fixes one input tree, node by node, in the  *)
(* order the recursive descent visits it.  The Python call stack of the    *)
(* descent is the variable stack; the graph a call returns to its caller   *)
(* is ret.                                                                 *)
(***************************************************************************)
EXTENDS Integers, Sequences, FiniteSets, TLC

\* AST nodes (statements) fed to the builder in one session, all builds together.
MaxStmts == 3
\* Nesting of compound statements (if / loop / expanded function) in one tree.
MaxDepth == 2
\* Top-level FlowGraph.from_ast calls in one session.
MaxBuilds == 2
\* Node objects created in one session before the builder reads no further
\* statement (what it has read, it finishes).
MaxObjects == 14

VARIABLES
    pc,      \* "idle" | "build" | "reduce" | "done" | "error"
    ctl,     \* "node": a single AST node is dispatched next; "body": the list
             \* handler is called next; "ret": a handler has just returned ret
    stack,   \* the handlers' call frames, innermost last
    ret,     \* the fragment returned by the handler that finished last
    graph,   \* the graph from_ast holds (being reduced, then returned)
    built,   \* the graph as the builder returned it, before reduce_merge_nodes
    pools,   \* per handler: its default func_returns / loop_breaks list objects
    pool,    \* the handler whose default lists the running build threads
    expand,  \* the expand flag the running build threads
    nid,     \* number of Node objects created so far: the next fresh identity
    bld,     \* number of from_ast calls started so far
    used,    \* AST nodes read so far
    err,     \* the exception that ended the last build, or "none"
    obs      \* observations about the input read so far (not program state)

vars == <<pc, ctl, stack, ret, graph, built, pools, pool, expand, nid, bld, used, err, obs>>

----------------------------------------------------------------------------
(* Nodes and graphs *)

\* A node object: id is its identity (the objects of a session are numbered
\* as they are created); cls is the Python class, st the type of the wrapped
\* statement ("None" for NonStatementNode).
mk(i, cls, st) == [id |-> i, cls |-> cls, st |-> st]

NoNode == mk(0, "None", "None")

NoGraph == [start |-> NoNode, end |-> NoNode, nodes |-> {}, edges |-> {}]

\* FlowGraph.__init__: fresh StartNode and StopNode, no user nodes, no edges.
FlowGraph(i) ==
    [start |-> mk(i, "StartNode", "None"),
     end   |-> mk(i + 1, "StopNode", "None"),
     nodes |-> {},
     edges |-> {}]

\* FlowGraph.add_statement_node / add_decision_node / add_merge_node
AddNode(g, n) == [g EXCEPT !.nodes = @ \cup {n}]

\* FlowGraph.add_edge
AddEdge(g, f, t) == [g EXCEPT !.edges = @ \cup {<<f, t>>}]

Out(g, n) == {e[2] : e \in {x \in g.edges : x[1] = n}}

In(g, n) == {e[1] : e \in {x \in g.edges : x[2] = n}}

\* FlowGraph.statement_count
StatementCount(g) ==
    Cardinality({n \in g.nodes : n.st # "None" /\ n.st # "ImplicitReturn"})

\* embed without the rewriting of edges that end in the fragment's Stop
EmbedKeepStop(g, other, s, e) ==
    LET to(t)   == IF t = other.start THEN s ELSE t
        from(f) == IF f = other.start THEN s ELSE f
    IN  [g EXCEPT !.nodes = @ \cup other.nodes,
                  !.edges = @ \cup {<<from(x[1]), to(x[2])>> : x \in other.edges}]

\* embed without taking over the fragment's user nodes
EmbedDropNodes(g, other, s, e) ==
    LET to(t)   == IF t = other.end THEN e ELSE IF t = other.start THEN s ELSE t
        from(f) == IF f = other.start THEN s ELSE f
    IN  [g EXCEPT !.edges = @ \cup {<<from(x[1]), to(x[2])>> : x \in other.edges}]

\* FlowGraph.embed: the fragment's user nodes join the graph; every edge of the
\* fragment is copied, an end in other.end_node becoming e, an end in
\* other.start_node becoming s, a start in other.start_node becoming s.
Embed(g, other, s, e) ==
    LET to(t)   == IF t = other.end THEN e ELSE IF t = other.start THEN s ELSE t
        from(f) == IF f = other.start THEN s ELSE f
    IN  [g EXCEPT !.nodes = @ \cup other.nodes,
                  !.edges = @ \cup {<<from(x[1]), to(x[2])>> : x \in other.edges}]

\* insert_fake_merge_nodes without the closing edge from the "after" merge
FakeMergeNoLink(g, ins, s, e) ==
    LET to(t)   == IF t = ins THEN s ELSE t
        from(f) == IF f = ins THEN e ELSE f
    IN  [g EXCEPT !.nodes = @ \cup {s, e},
                  !.edges = {<<from(x[1]), to(x[2])>> : x \in @}]

\* FlowGraph.insert_fake_merge_nodes: two new merge nodes s ("before") and e
\* ("after"); edges into ins now end in s, edges out of ins now leave e, and
\* e -> ins is added.
InsertFakeMergeNodes(g, ins, s, e) ==
    LET to(t)   == IF t = ins THEN s ELSE t
        from(f) == IF f = ins THEN e ELSE f
    IN  [g EXCEPT !.nodes = @ \cup {s, e},
                  !.edges = {<<from(x[1]), to(x[2])>> : x \in @} \cup {<<e, ins>>}]

\* FlowGraph.insert; the two merge nodes take identities i and i + 1.
Insert(g, other, ins, i) ==
    LET s == mk(i, "MergeNode", "None")
        e == mk(i + 1, "MergeNode", "None")
    IN  Embed(InsertFakeMergeNodes(g, ins, s, e), other, s, e)

\* The ast.stmt handler: Start -> Statement -> Stop.
StmtGraph(i, st) ==
    LET g == FlowGraph(i)
        n == mk(i + 2, "Node", st)
    IN  AddEdge(AddEdge(AddNode(g, n), g.start, n), n, g.end)

\* the jump handlers without graph.edges[node].clear()
ClearOutNot(g, n) == g

\* graph.edges[node].clear()
ClearOut(g, n) == [g EXCEPT !.edges = {x \in @ : x[1] # n}]

----------------------------------------------------------------------------
(* The reduction pass *)

\* the scan's test without the `elif not from_nodes` branch: only merges with
\* exactly one incoming edge are taken
ReducibleOneIn(g, n) ==
    /\ n \in g.nodes
    /\ n.cls = "MergeNode"
    /\ Cardinality(Out(g, n)) = 1
    /\ Cardinality(In(g, n)) = 1

\* the scan's test with `len(from_nodes) > 2` for `len(from_nodes) > 1`
ReducibleTwoIn(g, n) ==
    /\ n \in g.nodes
    /\ n.cls = "MergeNode"
    /\ Cardinality(Out(g, n)) = 1
    /\ Cardinality(In(g, n)) <= 2

\* reduce_merge_nodes, the scan's test: a MergeNode with exactly one outgoing
\* edge and at most one incoming edge is taken; every other node is skipped.
Reducible(g, n) ==
    /\ n \in g.nodes
    /\ n.cls = "MergeNode"
    /\ Cardinality(Out(g, n)) = 1
    /\ Cardinality(In(g, n)) <= 1

\* the second remove() raises KeyError when the merge node is its own
\* predecessor: its only edge is gone already.
ReduceRaises(g, n) == In(g, n) = {n}

\* reduce_merge_nodes, one rewrite: a merge with no incoming edge is deleted
\* with its outgoing edges; a merge between f and t is replaced by f -> t.
ReduceNode(g, n) ==
    IF In(g, n) = {}
    THEN [g EXCEPT !.nodes = @ \ {n}, !.edges = {x \in @ : x[1] # n}]
    ELSE LET f == CHOOSE x \in In(g, n) : TRUE
             t == CHOOSE x \in Out(g, n) : TRUE
         IN  [g EXCEPT !.nodes = @ \ {n},
                       !.edges = (@ \ {<<n, t>>, <<f, n>>}) \cup {<<f, t>>}]

\* reduce_merge_nodes run to its end with the scan in the order the nodes
\* were created.
RECURSIVE ReduceMergeNodes(_)
ReduceMergeNodes(g) ==
    LET C == {n \in g.nodes : Reducible(g, n)}
    IN  IF C = {} THEN g
        ELSE ReduceMergeNodes(ReduceNode(g, CHOOSE n \in C : \A k \in C : n.id <= k.id))

----------------------------------------------------------------------------
(* Call frames *)

Handlers == {"list", "func", "loop", "if", "jump", "return", "stmt"}

\* A frame of the descent.  k: the handler; g, d, m: its graph, decision and
\* merge node; ph: the if handler's position; n, min, tail, jmp: for a list
\* frame, the elements read so far, the least length of the list (1 for an
\* orelse that tested true), whether the ImplicitReturnStmt element is still
\* to come, and whether a break / continue / return was read in this list.
Frame(k, g, d, m, ph, min, tail) ==
    [k |-> k, g |-> g, d |-> d, m |-> m, ph |-> ph,
     n |-> 0, min |-> min, tail |-> tail, jmp |-> "no"]

Top == stack[Len(stack)]

Pop(s) == SubSeq(s, 1, Len(s) - 1)

SetTop(s, f) == [s EXCEPT ![Len(s)] = f]

Depth == Cardinality({i \in 1..Len(stack) : stack[i].k \in {"func", "loop", "if"}})

\* Index of the innermost frame of handler k, 0 when there is none.
Innermost(k) ==
    LET S == {i \in 1..Len(stack) : stack[i].k = k}
    IN  IF S = {} THEN 0 ELSE CHOOSE i \in S : \A j \in S : j <= i

\* The default lists in use: a handler called by from_ast uses its own.
Defaults(h) == IF stack = <<>> THEN h ELSE pool

----------------------------------------------------------------------------
(* Observations about the input tree, kept beside the program state *)

\* made:  statements, if and loop headers read in this build
\* jumps: break / continue nodes read inside a loop, with the decision and
\*        merge node of the innermost loop around them
\* rets:  return nodes whose innermost function is the root function, with
\*        the number of compound statements around them (the function too)
\* dead:  nodes of statements read after a break / continue / return of the
\*        same list (first: right after it; loop: the node is a loop header)
\* chain: the nodes of the root list's elements, in order
\* plain: the root is a module whose elements so far are all atomic statements
\* oos:   a break / continue was read outside every loop of this tree, or a
\*        return outside every expanded function of this tree
\* steps: rewrites the reduction pass has made
Obs0 ==
    [made |-> 0, jumps |-> {}, rets |-> {}, dead |-> {}, chain |-> <<>>,
     plain |-> FALSE, oos |-> FALSE, steps |-> 0]

\* The top list frame after one more element was read.
Noted(isJump) ==
    IF stack = <<>> THEN stack
    ELSE SetTop(stack, [Top EXCEPT !.n = @ + 1,
                                   !.jmp = IF isJump THEN "just"
                                           ELSE IF @ = "just" THEN "past" ELSE @])

DeadMark(n, isLoop) ==
    IF stack # <<>> /\ Top.jmp # "no"
    THEN {[n |-> n, first |-> (Top.jmp = "just"), loop |-> isLoop]}
    ELSE {}

\* One more element read: a node n made for it (NoNode: none), atomic or not.
Observe(o, n, atomic, isLoop) ==
    [o EXCEPT !.made  = IF n = NoNode THEN @ ELSE @ + 1,
              !.dead  = IF n = NoNode THEN @ ELSE @ \cup DeadMark(n, isLoop),
              !.chain = IF Len(stack) = 1 /\ n # NoNode THEN Append(@, n) ELSE @,
              !.plain = @ /\ atomic]

----------------------------------------------------------------------------
(* Initial state and the handlers *)

Init ==
    /\ pc = "idle"
    /\ ctl = "node"
    /\ stack = <<>>
    /\ ret = NoGraph
    /\ graph = NoGraph
    /\ built = NoGraph
    /\ pools = [h \in Handlers |-> [fr |-> <<>>, lb |-> <<>>]]
    /\ pool = "stmt"
    /\ expand = TRUE
    /\ nid = 0
    /\ bld = 0
    /\ used = 0
    /\ err = "none"
    /\ obs = Obs0

\* FlowGraph.from_ast is called: flow_graph_from_ast(ast_root, expand=True).
FromAst ==
    /\ pc \in {"idle", "done", "error"}
    /\ bld < MaxBuilds
    /\ pc' = "build"
    /\ ctl' = "node"
    /\ stack' = <<>>
    /\ ret' = NoGraph
    /\ graph' = NoGraph
    /\ built' = NoGraph
    /\ pool' = "stmt"
    /\ expand' = TRUE
    /\ bld' = bld + 1
    /\ err' = "none"
    /\ obs' = Obs0
    /\ UNCHANGED <<pools, nid, used>>

\* flow_graph_from_ast is about to dispatch on one AST node: the root, or
\* the next element of the list the innermost list handler iterates.
AtNode ==
    /\ pc = "build"
    /\ ctl = "node"
    /\ stack # <<>> => (Top.k = "list" /\ Top.tail # "done")

CanRead == AtNode /\ used < MaxStmts /\ nid < MaxObjects

\* An exception leaves the build: every frame is unwound, no graph is
\* returned, and the default lists keep what was pushed on them.
Raise(e) ==
    /\ pc' = "error"
    /\ err' = e
    /\ stack' = <<>>
    /\ ret' = NoGraph
    /\ ctl' = "node"

\* The ast.Module handler: flow_graph_from_ast(ast_root.body), which passes
\* neither expand nor the lists, so the list handler runs with expand=False
\* and its own default lists.
Module ==
    /\ AtNode
    /\ stack = <<>>
    /\ ctl' = "body"
    /\ expand' = FALSE
    /\ pool' = "list"
    /\ obs' = [obs EXCEPT !.plain = TRUE]
    /\ UNCHANGED <<pc, stack, ret, graph, built, pools, nid, bld, used, err>>

\* The list handler, entry: a graph with the edge Start -> Stop.
List ==
    /\ pc = "build"
    /\ ctl = "body"
    /\ LET g0 == FlowGraph(nid)
           g  == AddEdge(g0, g0.start, g0.end)
           min  == IF stack # <<>> /\ Top.k = "if" /\ Top.ph = "orelse" THEN 1 ELSE 0
           tail == IF stack # <<>> /\ Top.k = "func" THEN "ir" ELSE "none"
       IN  stack' = Append(stack, Frame("list", g, NoNode, NoNode, "body", min, tail))
    /\ nid' = nid + 2
    /\ ctl' = "node"
    /\ UNCHANGED <<pc, ret, graph, built, pools, pool, expand, bld, used, err, obs>>

\* The list handler, loop body: graph.insert(<fragment>, graph.end_node).
ListInsert ==
    /\ pc = "build"
    /\ ctl = "ret"
    /\ stack # <<>>
    /\ Top.k = "list"
    /\ stack' = SetTop(stack, [Top EXCEPT !.g = Insert(@, ret, @.end, nid)])
    /\ nid' = nid + 2
    /\ ctl' = "node"
    /\ ret' = NoGraph
    /\ UNCHANGED <<pc, graph, built, pools, pool, expand, bld, used, err, obs>>

\* The list handler, end of the list: return graph.
ListReturn ==
    /\ pc = "build"
    /\ ctl = "node"
    /\ stack # <<>>
    /\ Top.k = "list"
    /\ Top.n >= Top.min
    /\ Top.tail # "ir"
    /\ ret' = Top.g
    /\ stack' = Pop(stack)
    /\ ctl' = "ret"
    /\ UNCHANGED <<pc, graph, built, pools, pool, expand, nid, bld, used, err, obs>>

\* The ast.stmt handler on an input statement.
Statement ==
    /\ CanRead
    /\ ret' = StmtGraph(nid, "Stmt")
    /\ nid' = nid + 3
    /\ ctl' = "ret"
    /\ stack' = Noted(FALSE)
    /\ used' = used + 1
    /\ obs' = Observe(obs, mk(nid + 2, "Node", "Stmt"), TRUE, FALSE)
    /\ UNCHANGED <<pc, graph, built, pools, pool, expand, bld, err>>

\* The ast.stmt handler on the ImplicitReturnStmt the function handler
\* appended to the body.
ImplicitReturn ==
    /\ AtNode
    /\ stack # <<>>
    /\ Top.tail = "ir"
    /\ ret' = StmtGraph(nid, "ImplicitReturn")
    /\ nid' = nid + 3
    /\ ctl' = "ret"
    /\ stack' = SetTop(Noted(FALSE), [Noted(FALSE)[Len(stack)] EXCEPT !.tail = "done"])
    /\ UNCHANGED <<pc, graph, built, pools, pool, expand, bld, used, err, obs>>

\* The ast.Break / ast.Continue handler.
BreakContinue ==
    /\ CanRead
    /\ \E kind \in {"Break", "Continue"} :
        LET P    == Defaults("jump")
            lb   == pools[P].lb
            node == mk(nid + 2, "Node", kind)
            L    == Innermost("loop")
            o    == Observe(obs, node, FALSE, FALSE)
        IN  /\ pool' = P
            /\ used' = used + 1
            /\ nid' = nid + 3
            /\ obs' = IF L = 0 THEN [o EXCEPT !.oos = TRUE]
                      ELSE [o EXCEPT !.jumps = @ \cup
                              {[n |-> node, d |-> stack[L].d, m |-> stack[L].m]}]
            /\ IF lb = <<>>
               THEN /\ Raise("IndexError")
                    /\ UNCHANGED pools
               ELSE /\ ret' = ClearOut(StmtGraph(nid, kind), node)
                    /\ pools' = [pools EXCEPT ![P].lb[Len(lb)] = @ \cup {node}]
                    /\ ctl' = "ret"
                    /\ stack' = Noted(TRUE)
                    /\ UNCHANGED <<pc, err>>
    /\ UNCHANGED <<graph, built, expand, bld>>

\* The ast.Return handler.
Return ==
    /\ CanRead
    /\ LET P    == Defaults("return")
           fr   == pools[P].fr
           node == mk(nid + 2, "Node", "Return")
           F    == Innermost("func")
           o    == Observe(obs, node, FALSE, FALSE)
       IN  /\ pool' = P
           /\ obs' = IF F = 0 THEN [o EXCEPT !.oos = TRUE]
                     ELSE IF F = 1 THEN [o EXCEPT !.rets = @ \cup {[n |-> node, depth |-> Depth]}]
                     ELSE o
           /\ IF fr = <<>>
              THEN /\ Raise("IndexError")
                   /\ UNCHANGED pools
              ELSE /\ ret' = ClearOut(StmtGraph(nid, "Return"), node)
                   /\ pools' = [pools EXCEPT ![P].fr[Len(fr)] = @ \cup {node}]
                   /\ ctl' = "ret"
                   /\ stack' = Noted(TRUE)
                   /\ UNCHANGED <<pc, err>>
    /\ used' = used + 1
    /\ nid' = nid + 3
    /\ UNCHANGED <<graph, built, expand, bld>>

\* The ast.FunctionDef / ast.AsyncFunctionDef handler, entry.  Expanded: a
\* fresh return set is pushed and the list handler is called on the body
\* with an ImplicitReturnStmt appended.  Not expanded: the ast.stmt handler.
FunctionDef ==
    /\ CanRead
    /\ used' = used + 1
    /\ \/ /\ expand
          /\ Depth < MaxDepth
          /\ LET P == Defaults("func")
             IN  /\ pool' = P
                 /\ pools' = [pools EXCEPT ![P].fr = Append(@, {})]
          /\ stack' = Append(Noted(FALSE),
                             Frame("func", NoGraph, NoNode, NoNode, "body", 0, "none"))
          /\ ctl' = "body"
          /\ obs' = Observe(obs, NoNode, FALSE, FALSE)
          /\ UNCHANGED <<ret, nid>>
       \/ /\ ~expand
          /\ ret' = StmtGraph(nid, "Stmt")
          /\ nid' = nid + 3
          /\ ctl' = "ret"
          /\ stack' = Noted(FALSE)
          /\ obs' = Observe(obs, mk(nid + 2, "Node", "Stmt"), TRUE, FALSE)
          /\ UNCHANGED <<pools, pool>>
    /\ UNCHANGED <<pc, graph, built, expand, bld, err>>

\* the wiring with add_edge's arguments swapped
WireReturnsReversed(g, returns) ==
    [g EXCEPT !.edges = @ \cup {<<g.end, r>> : r \in returns}]

\* The function handler's wiring: graph.add_edge(return_, graph.end_node).
WireReturns(g, returns) ==
    [g EXCEPT !.edges = @ \cup {<<r, g.end>> : r \in returns}]

\* The function handler after the body: pop the return set and add an edge
\* from every collected return node to the fragment's Stop.
FunctionReturn ==
    /\ pc = "build"
    /\ ctl = "ret"
    /\ stack # <<>>
    /\ Top.k = "func"
    /\ LET fr == pools[pool].fr
           returns == fr[Len(fr)]
       IN  /\ pools' = [pools EXCEPT ![pool].fr = Pop(@)]
           /\ ret' = WireReturns(ret, returns)
    /\ stack' = Pop(stack)
    /\ UNCHANGED <<pc, ctl, graph, built, pool, expand, nid, bld, used, err, obs>>

\* wiring of the collected modifiers with break and continue swapped
WireSwapped(g, mods, d, m) ==
    [g EXCEPT !.edges = @ \cup {<<x, IF x.st = "Continue" THEN m ELSE d>> : x \in mods}]

\* The loop handler's wiring: continue -> decision, break -> merge.
Wire(g, mods, d, m) ==
    [g EXCEPT !.edges = @ \cup {<<x, IF x.st = "Continue" THEN d ELSE m>> : x \in mods}]

\* The ast.While / ast.For handler, entry.
Loop ==
    /\ CanRead
    /\ Depth < MaxDepth
    /\ LET P  == Defaults("loop")
           g0 == FlowGraph(nid)
           d  == mk(nid + 2, "DecisionNode", "Loop")
           m  == mk(nid + 3, "MergeNode", "None")
           g  == AddEdge(AddEdge(AddEdge(AddNode(AddNode(g0, d), m),
                     g0.start, d), d, g0.end), m, g0.end)
       IN  /\ pool' = P
           /\ pools' = [pools EXCEPT ![P].lb = Append(@, {})]
           /\ stack' = Append(Noted(FALSE), Frame("loop", g, d, m, "body", 0, "none"))
           /\ obs' = Observe(obs, d, FALSE, TRUE)
    /\ nid' = nid + 4
    /\ used' = used + 1
    /\ ctl' = "body"
    /\ UNCHANGED <<pc, ret, graph, built, expand, bld, err>>

\* The loop handler after the body: embed it between the decision and the
\* decision, pop the modifiers and wire them.
LoopReturn ==
    /\ pc = "build"
    /\ ctl = "ret"
    /\ stack # <<>>
    /\ Top.k = "loop"
    /\ LET lb == pools[pool].lb
           modifiers == lb[Len(lb)]
       IN  /\ pools' = [pools EXCEPT ![pool].lb = Pop(@)]
           /\ ret' = Wire(Embed(Top.g, ret, Top.d, Top.d), modifiers, Top.d, Top.m)
    /\ stack' = Pop(stack)
    /\ UNCHANGED <<pc, ctl, graph, built, pool, expand, nid, bld, used, err, obs>>

\* The ast.If handler, entry.
If ==
    /\ CanRead
    /\ Depth < MaxDepth
    /\ LET g0 == FlowGraph(nid)
           d  == mk(nid + 2, "DecisionNode", "If")
           m  == mk(nid + 3, "MergeNode", "None")
           g  == AddEdge(AddEdge(AddNode(AddNode(g0, d), m), g0.start, d), m, g0.end)
       IN  /\ stack' = Append(Noted(FALSE), Frame("if", g, d, m, "body", 0, "none"))
           /\ obs' = Observe(obs, d, FALSE, FALSE)
    /\ pool' = Defaults("if")
    /\ nid' = nid + 4
    /\ used' = used + 1
    /\ ctl' = "body"
    /\ UNCHANGED <<pc, ret, graph, built, pools, expand, bld, err>>

\* The if handler after the body: embed it between decision and merge; then
\* either the orelse is not empty and the list handler is called on it, or
\* the edge decision -> merge is added and the graph returned.
IfBody ==
    /\ pc = "build"
    /\ ctl = "ret"
    /\ stack # <<>>
    /\ Top.k = "if"
    /\ Top.ph = "body"
    /\ LET g == Embed(Top.g, ret, Top.d, Top.m)
       IN  \/ /\ used < MaxStmts
              /\ nid + 2 < MaxObjects
              /\ stack' = SetTop(stack, [Top EXCEPT !.g = g, !.ph = "orelse"])
              /\ ctl' = "body"
              /\ ret' = NoGraph
           \/ /\ ret' = AddEdge(g, Top.d, Top.m)
              /\ stack' = Pop(stack)
              /\ ctl' = "ret"
    /\ UNCHANGED <<pc, graph, built, pools, pool, expand, nid, bld, used, err, obs>>

\* The if handler after the orelse: embed it too and return.
IfOrelse ==
    /\ pc = "build"
    /\ ctl = "ret"
    /\ stack # <<>>
    /\ Top.k = "if"
    /\ Top.ph = "orelse"
    /\ ret' = Embed(Top.g, ret, Top.d, Top.m)
    /\ stack' = Pop(stack)
    /\ UNCHANGED <<pc, ctl, graph, built, pools, pool, expand, nid, bld, used, err, obs>>

\* The base flow_graph_from_ast: a node that is neither an ast.stmt nor a
\* list nor a module.
Unsupported ==
    /\ CanRead
    /\ Raise("NotImplementedError")
    /\ used' = used + 1
    /\ obs' = Observe(obs, NoNode, FALSE, FALSE)
    /\ UNCHANGED <<graph, built, pools, pool, expand, nid, bld>>

\* from_ast after flow_graph_from_ast returned: graph.reduce_merge_nodes().
FromAstReduce ==
    /\ pc = "build"
    /\ ctl = "ret"
    /\ stack = <<>>
    /\ graph' = ret
    /\ built' = ret
    /\ ret' = NoGraph
    /\ pc' = "reduce"
    /\ UNCHANGED <<ctl, stack, pools, pool, expand, nid, bld, used, err, obs>>

\* reduce_merge_nodes: the scan over list(self.user_nodes), whose order is
\* that of a set of objects, meets some node that passes the test first,
\* rewrites the graph around it and starts over.
Reduce ==
    /\ pc = "reduce"
    /\ \E n \in graph.nodes :
        /\ Reducible(graph, n)
        /\ IF ReduceRaises(graph, n)
           THEN /\ Raise("KeyError")
                /\ UNCHANGED <<graph, obs>>
           ELSE /\ graph' = ReduceNode(graph, n)
                /\ obs' = [obs EXCEPT !.steps = @ + 1]
                /\ UNCHANGED <<pc, ctl, stack, ret, err>>
    /\ UNCHANGED <<built, pools, pool, expand, nid, bld, used>>

\* reduce_merge_nodes: the scan passes every node; from_ast returns the graph.
ReduceReturn ==
    /\ pc = "reduce"
    /\ \A n \in graph.nodes : ~Reducible(graph, n)
    /\ pc' = "done"
    /\ UNCHANGED <<ctl, stack, ret, graph, built, pools, pool, expand, nid, bld, used, err, obs>>

Next ==
    \/ FromAst
    \/ Module
    \/ List
    \/ ListInsert
    \/ ListReturn
    \/ Statement
    \/ ImplicitReturn
    \/ BreakContinue
    \/ Return
    \/ FunctionDef
    \/ FunctionReturn
    \/ Loop
    \/ LoopReturn
    \/ If
    \/ IfBody
    \/ IfOrelse
    \/ Unsupported
    \/ FromAstReduce
    \/ Reduce
    \/ ReduceReturn

Spec == Init /\ [][Next]_vars

----------------------------------------------------------------------------
(* Properties *)

\* The graph from_ast holds after the builder returned it.
Returned == pc \in {"reduce", "done"}

Own(g) == g.nodes \cup {g.start, g.end}

\* The nodes reachable from the set S along the edges of g.
RECURSIVE ReachFrom(_, _)
ReachFrom(g, S) ==
    LET T == S \cup {e[2] : e \in {x \in g.edges : x[1] \in S}}
    IN  IF T = S THEN S ELSE ReachFrom(g, T)

\* C1: the graph from_ast returns has one Start and one Stop, its own: no
\* user node is a Start or a Stop, no edge ends in Start, none leaves Stop,
\* and every edge endpoint is the graph's Start, its Stop or one of its user
\* nodes (never the Start or Stop of a fragment that embed or insert consumed).
C1_OneStartOneStop ==
    pc = "done" =>
        /\ graph.start.cls = "StartNode"
        /\ graph.end.cls = "StopNode"
        /\ \A n \in graph.nodes : n.cls \notin {"StartNode", "StopNode"}
        /\ \A e \in graph.edges :
            /\ e[2] # graph.start
            /\ e[1] # graph.end
            /\ e[1] \in Own(graph)
            /\ e[2] \in Own(graph)

\* A returned graph into which a compound fragment was inserted and in which
\* a body was embedded.
C1_Witness ==
    /\ pc = "done"
    /\ obs.made >= 2
    /\ \E n \in graph.nodes : n.cls = "DecisionNode"
    /\ \E e \in graph.edges : e[2] = graph.end

\* C2: statement_count of the graph the builder returned, and of the graph
\* from_ast returns after the reduction pass, is the number of statements and
\* if / loop headers read from the input; merge nodes and the implicit
\* return marker are not counted.
C2_StatementCount ==
    Returned => StatementCount(graph) = obs.made

\* A returned graph of an expanded function (it has the implicit return
\* marker) with two counted nodes, from which merge nodes were reduced away.
C2_Witness ==
    /\ pc = "done"
    /\ obs.made = 2
    /\ obs.steps >= 2
    /\ \E n \in graph.nodes : n.st = "ImplicitReturn"

\* C3: for a module of n atomic statements the graph from_ast returns is
\* the path Start -> s1 -> ... -> sn -> Stop: its user nodes are s1..sn (no
\* merge node is left), it has n + 1 edges, and for n = 0 the one edge
\* Start -> Stop.
C3_Chain ==
    (pc = "done" /\ obs.plain) =>
        LET c == obs.chain
            n == Len(c)
        IN  /\ graph.nodes = {c[i] : i \in 1..n}
            /\ \A x \in graph.nodes : x.cls # "MergeNode"
            /\ Cardinality(graph.edges) = n + 1
            /\ graph.edges =
                 IF n = 0 THEN {<<graph.start, graph.end>>}
                 ELSE {<<graph.start, c[1]>>, <<c[n], graph.end>>}
                      \cup {<<c[i], c[i + 1]>> : i \in 1..(n - 1)}

\* The returned graph of a module of three atomic statements.
C3_Witness ==
    /\ pc = "done"
    /\ obs.plain
    /\ Len(obs.chain) = 3

\* C4: in the graph the builder returned and through the reduction pass, a
\* continue node's only outgoing edge ends in the decision node of the
\* innermost loop around it; a break node's only outgoing edge ends in that
\* loop's exit merge or, once the reduction removed that merge, in the node
\* the merge led to, and never in that loop's decision node.
C4_JumpTargets ==
    Returned =>
        \A j \in obs.jumps :
            IF j.n.st = "Continue"
            THEN Out(graph, j.n) = {j.d}
            ELSE \E t \in Out(graph, j.n) :
                    /\ Out(graph, j.n) = {t}
                    /\ t # j.d
                    /\ \/ t = j.m
                       \/ j.m \notin graph.nodes /\ <<j.m, t>> \in built.edges

\* A returned graph with a break in a loop nested in another loop, whose
\* exit merge the reduction removed.
C4_Witness ==
    /\ pc = "done"
    /\ \E j \in obs.jumps :
        /\ j.n.st = "Break"
        /\ j.m \notin graph.nodes
        /\ \E d \in graph.nodes : d.st = "Loop" /\ d.id < j.d.id

\* C5: in the graph built from an expanded function, before and after the
\* reduction pass, every return node of that function has exactly one
\* outgoing edge, and it ends in the graph's Stop.
C5_ReturnsToStop ==
    Returned => \A r \in obs.rets : Out(graph, r.n) = {graph.end}

\* A returned graph of a function with a return inside a loop or an if.
C5_Witness ==
    /\ pc = "done"
    /\ \E r \in obs.rets : r.depth >= 2

\* C6 as stated: the node of a statement that follows a return, break or
\* continue in the same sequence is in the node set of the returned graph and
\* has no incoming and no outgoing edge.
C6_NoIncidentEdges ==
    pc = "done" =>
        \A x \in obs.dead :
            /\ x.n \in graph.nodes
            /\ In(graph, x.n) = {}
            /\ Out(graph, x.n) = {}

\* C6 as amended: the node of a statement that follows a return, break or
\* continue in the same sequence is in the node set of the returned graph and
\* cannot be reached from Start; the node right after the jump has no
\* incoming edge at all (unless it is a loop header, which its own body
\* reaches); an atomic statement keeps its one outgoing edge.
C6_Unreachable ==
    pc = "done" =>
        \A x \in obs.dead :
            /\ x.n \in graph.nodes
            /\ x.n \notin ReachFrom(graph, {graph.start})
            /\ (x.first /\ ~x.loop) => In(graph, x.n) = {}
            /\ x.n.st = "Stmt" => Cardinality(Out(graph, x.n)) = 1

\* The returned graph of a function with an atomic statement right after a
\* return: the statement still has an outgoing edge.
C6_Witness ==
    /\ pc = "done"
    /\ obs.rets # {}
    /\ \E x \in obs.dead : x.first /\ x.n.st = "Stmt" /\ Out(graph, x.n) # {}

\* C7: the graph from_ast returns is a fixed point of the reduction pass: no
\* merge node without an incoming edge is left, none with exactly one
\* incoming and one outgoing edge, and the pass run again finds nothing to
\* rewrite and returns the same graph.
C7_FixedPoint ==
    pc = "done" =>
        /\ \A n \in graph.nodes :
              n.cls = "MergeNode" =>
                  /\ In(graph, n) # {}
                  /\ ~(Cardinality(In(graph, n)) = 1 /\ Cardinality(Out(graph, n)) = 1)
        /\ ReduceMergeNodes(graph) = graph

\* The returned graph of an input with a loop and no break: the loop's exit
\* merge had no incoming edge when the builder returned, and is gone.
C7_Witness ==
    /\ pc = "done"
    /\ obs.jumps = {}
    /\ \E d \in graph.nodes :
        /\ d.st = "Loop"
        /\ \E m \in built.nodes :
            /\ m.cls = "MergeNode"
            /\ m.id = d.id + 1
            /\ In(built, m) = {}
            /\ m \notin graph.nodes

\* C8 as stated: once a break or continue was read outside every loop of the
\* input, or a return outside every expanded function, the build has ended
\* with a ScopeError.
C8_ScopeError ==
    obs.oos => (pc = "error" /\ err = "ScopeError")

\* C9 as stated: between builds (before the first, after one returned or
\* raised) every default func_returns and loop_breaks list is empty.
C9_FreshStacks ==
    pc \in {"idle", "done", "error"} =>
        \A h \in Handlers : pools[h].fr = <<>> /\ pools[h].lb = <<>>

\* C10: whatever node the scan of the reduction pass meets first at each
\* rewrite, the pass ends in the graph the scan in creation order ends in; no
\* rewrite raises KeyError; every rewrite takes one node away, so the pass ends.
C10_OrderIndependent ==
    /\ err # "KeyError"
    /\ Returned => Cardinality(graph.nodes) + obs.steps = Cardinality(built.nodes)
    /\ pc = "done" => graph = ReduceMergeNodes(built)

\* A returned graph for which the scan had a choice between several nodes
\* at its first rewrite.
C10_Witness ==
    /\ pc = "done"
    /\ obs.steps >= 3
    /\ Cardinality({n \in built.nodes : Reducible(built, n)}) >= 3

====
